---- MODULE Spec2Model ----
(***************************************************************************)
(* OTP issuance and verification of otp-telegram.                          *)
(*                                                                         *)
(* The repository holds three variants of one server:                      *)
(*   "server"  - src/server.js          (polling bot, sweeper)             *)
(*   "webhook" - src/unnamed/part_000   (webhook bot, fallback, sweeper)   *)
(*   "direct"  - src/unnamed/part_001   (direct HTTP API, no sweeper)      *)
(* The variant is fixed at start-up; the stores and the verify handler are *)
(* the same code in all three.                                             *)
(*                                                                         *)
(* JavaScript values that reach the handlers from a request body are       *)
(* modelled as tagged records (Undef, Str, Num) so that truthiness, strict *)
(* equality and method calls on non-strings behave as in the runtime.      *)
(* A string is a sequence of one-character strings.                        *)
(***************************************************************************)
EXTENDS Integers, Sequences, FiniteSets, TLC

\* variant, the two Maps, Date.now(), the handlers suspended at an await, the
\* number of issuing requests received, the session ids answered so far, and
\* the last event that changed any of these together with what it answered
\* or sent. A request that changes nothing is answered from the state alone
\* (VerifyResult, SessionLookup) and leaves every variable as it is.
VARIABLES variant, otpStorage, userSessions, now, inFlight, nStarts,
          returnedIds, last

vars == <<variant, otpStorage, userSessions, now, inFlight, nStarts,
          returnedIds, last>>

(* ---------------------------- bounds ----------------------------------- *)
MaxStarts == 2
MaxInFlight == 1
MaxTicks == 2
MaxOverlap == 2

(* ------------------------- JavaScript values --------------------------- *)
Undef == [t |-> "undefined", s |-> <<>>, n |-> 0]

Str(s) == [t |-> "string", s |-> s, n |-> 0]

Num(n) == [t |-> "number", s |-> <<>>, n |-> n]

\* !v is false exactly for the truthy values
Truthy(v) == \/ v.t = "string" /\ v.s # <<>>
             \/ v.t = "number" /\ v.n # 0

\* a || b
Or(a, b) == IF Truthy(a) THEN a ELSE b

\* a === b
StrictEq(a, b) == a.t = b.t /\ a.s = b.s /\ a.n = b.n

IsString(v) == v.t = "string"

UpperLetters == <<"A","B","C","D","E","F","G","H","I","J","K","L","M",
                  "N","O","P","Q","R","S","T","U","V","W","X","Y","Z">>

LowerLetters == <<"a","b","c","d","e","f","g","h","i","j","k","l","m",
                  "n","o","p","q","r","s","t","u","v","w","x","y","z">>

\* upper-case letter |-> its lower-case letter
LowerOf ==
  [c \in {UpperLetters[i] : i \in 1..Len(UpperLetters)} |->
     LowerLetters[CHOOSE i \in 1..Len(UpperLetters) : UpperLetters[i] = c]]

ToLowerChar(c) == IF c \in DOMAIN LowerOf THEN LowerOf[c] ELSE c

\* String.prototype.toLowerCase on the characters of s
ToLowerCase(s) == [i \in 1..Len(s) |-> ToLowerChar(s[i])]

DecimalDigits == <<"0","1","2","3","4","5","6","7","8","9">>

RECURSIVE NumberToString(_)
\* Number.prototype.toString / template interpolation of a non-negative integer
NumberToString(n) ==
  IF n < 10 THEN <<DecimalDigits[n + 1]>>
  ELSE NumberToString(n \div 10) \o <<DecimalDigits[(n % 10) + 1]>>

DigitValue(c) == (CHOOSE i \in 1..10 : DecimalDigits[i] = c) - 1

RECURSIVE ParseDigits(_, _)
ParseDigits(s, acc) ==
  IF s = <<>> THEN acc ELSE ParseDigits(Tail(s), acc * 10 + DigitValue(Head(s)))

\* parseInt on an integer number or on a string of decimal digits
ParseInt(v) == IF v.t = "number" THEN v.n ELSE ParseDigits(v.s, 0)

(* --------------------------- code generator ---------------------------- *)
\* outcomes of Math.random(), each a fraction <<numerator, denominator>> in [0, 1)
MathRandom == {<<0, 1000>>, <<999, 1000>>}

\* Math.floor(100000 + Math.random() * 900000).toString()
generateOTP(r) == NumberToString(100000 + ((r[1] * 900000) \div r[2]))

\* outcomes of the two Math.random().toString(36).substring(2, 15) calls of
\* one generateSessionId call, <<first fragment, second fragment>>
Base36Draws == {<<"k3x", "z9q">>, <<"z9q", "k3x">>}

\* the two fragments concatenated
generateSessionId(f1, f2) == f1 \o f2

(* ------------------------------ OTP store ------------------------------ *)
\* 10 * 60 * 1000
OtpExpiryMs == 10 * 60 * 1000

\* an expiry test that never finds a record expired
isExpired_Never(t, timestamp) == FALSE

isExpired(t, timestamp) == (t - timestamp) > OtpExpiryMs

IndexOfKey(store, chatId) ==
  IF \E i \in 1..Len(store) : store[i].chatId = chatId
  THEN CHOOSE i \in 1..Len(store) : store[i].chatId = chatId
  ELSE 0

RemoveAt(store, i) == SubSeq(store, 1, i - 1) \o SubSeq(store, i + 1, Len(store))

\* a store that appends on every set, leaving an earlier record of the key
OtpSet_Append(store, chatId, otp, username, timestamp) ==
  Append(store, [chatId |-> chatId, otp |-> otp, username |-> username,
                 timestamp |-> timestamp])

\* Map.prototype.set: an existing key keeps its position, a new key is appended
OtpSet(store, chatId, otp, username, timestamp) ==
  LET rec == [chatId |-> chatId, otp |-> otp, username |-> username,
              timestamp |-> timestamp]
      i == IndexOfKey(store, chatId)
  IN IF i = 0 THEN Append(store, rec) ELSE [store EXCEPT ![i] = rec]

\* Map.prototype.delete
OtpDelete(store, chatId) ==
  LET i == IndexOfKey(store, chatId)
  IN IF i = 0 THEN store ELSE RemoveAt(store, i)

RecordsOf(store, chatId) == {i \in 1..Len(store) : store[i].chatId = chatId}

(* ---------------------------- session store --------------------------- *)
SessionIds == {generateSessionId(d[1], d[2]) : d \in Base36Draws}

\* a session record that is not marked verified
SessionRecord_Unverified(foundChatId, foundUserData, t) ==
  [chatId |-> foundChatId, username |-> foundUserData.username,
   verified |-> FALSE, timestamp |-> t]

\* the object stored by userSessions.set in the verify handler
SessionRecord(foundChatId, foundUserData, t) ==
  [chatId |-> foundChatId, username |-> foundUserData.username,
   verified |-> TRUE, timestamp |-> t]

\* Map.prototype.set on userSessions
SessionSet(sessions, sessionId, rec) == (sessionId :> rec) @@ sessions

(* --------------------------- POST /api/verify-otp ---------------------- *)
\* the comparison without the toLowerCase calls
MatchesRecord_CaseSensitive(userData, username, otp) ==
  /\ userData.username.s = username.s
  /\ StrictEq(userData.otp, otp)

\* the condition of the if inside the scan; evaluated only on two strings
MatchesRecord(userData, username, otp) ==
  /\ ToLowerCase(userData.username.s) = ToLowerCase(username.s)
  /\ StrictEq(userData.otp, otp)

RECURSIVE ScanStore_LiveFirst(_, _, _, _, _)
\* a scan that passes over an expired match when a later record matches and
\* is not expired
ScanStore_LiveFirst(store, i, username, otp, t) ==
  IF i > Len(store) THEN [kind |-> "none", idx |-> 0]
  ELSE IF ~IsString(store[i].username) \/ ~IsString(username)
       THEN [kind |-> "throw", idx |-> i]
       ELSE IF MatchesRecord(store[i], username, otp)
            THEN IF isExpired(t, store[i].timestamp)
                 THEN LET rest == ScanStore_LiveFirst(store, i + 1, username, otp, t)
                      IN IF rest.kind = "found" THEN rest
                         ELSE [kind |-> "expired", idx |-> i]
                 ELSE [kind |-> "found", idx |-> i]
            ELSE ScanStore_LiveFirst(store, i + 1, username, otp, t)

RECURSIVE ScanStore(_, _, _, _, _)
\* the for-of loop over otpStorage.entries(): the first matching entry ends
\* the scan, either by return (expired) or by break (found); calling
\* toLowerCase on a value that is not a string throws
ScanStore(store, i, username, otp, t) ==
  IF i > Len(store) THEN [kind |-> "none", idx |-> 0]
  ELSE IF ~IsString(store[i].username) \/ ~IsString(username)
       THEN [kind |-> "throw", idx |-> i]
       ELSE IF MatchesRecord(store[i], username, otp)
            THEN IF isExpired(t, store[i].timestamp)
                 THEN [kind |-> "expired", idx |-> i]
                 ELSE [kind |-> "found", idx |-> i]
            ELSE ScanStore(store, i + 1, username, otp, t)

\* if (!foundChatId) after the loop
FoundChatIdIsSet(foundChatId) == Truthy(Num(foundChatId))

\* a verify that starts the scan without checking its two fields
VerifyOutcome_NoValidation(store, username, otp, t) ==
  LET m == ScanStore(store, 1, username, otp, t)
  IN CASE m.kind = "throw" -> "TypeError"
       [] m.kind = "expired" -> "Expired"
       [] m.kind = "found" /\ FoundChatIdIsSet(store[m.idx].chatId) -> "Success"
       [] OTHER -> "InvalidCredentials"

VerifyOutcome(store, username, otp, t) ==
  IF ~Truthy(username) \/ ~Truthy(otp) THEN "InvalidRequest"
  ELSE LET m == ScanStore(store, 1, username, otp, t)
       IN CASE m.kind = "throw" -> "TypeError"
            [] m.kind = "expired" -> "Expired"
            [] m.kind = "found" /\ FoundChatIdIsSet(store[m.idx].chatId) -> "Success"
            [] OTHER -> "InvalidCredentials"

\* otpStorage.delete(chatId) in the expired branch
StoreAfterExpired(store, chatId) == OtpDelete(store, chatId)

\* a verify that leaves the used record in the store
StoreAfterSuccess_Keep(store, foundChatId) == store

\* a verify that removes every record carrying the code it used
StoreAfterSuccess_AllWithCode(store, foundChatId) ==
  LET code == store[IndexOfKey(store, foundChatId)].otp
      Other(rec) == rec.otp # code
  IN SelectSeq(store, Other)

\* otpStorage.delete(foundChatId) after the session is created
StoreAfterSuccess(store, foundChatId) == OtpDelete(store, foundChatId)

VerifyStatus(outcome) ==
  CASE outcome = "Success" -> 200
    [] outcome = "TypeError" -> 500
    [] OTHER -> 400

VerifyError(outcome) ==
  CASE outcome = "InvalidRequest" -> "Username and OTP are required"
    [] outcome = "InvalidCredentials" -> "Invalid username or OTP"
    [] outcome = "Expired" -> "OTP has expired"
    [] OTHER -> ""

NoChat == -1

\* a verify that also creates a session when the matching record is expired
CreatesSession_AlsoExpired(outcome) == outcome \in {"Success", "Expired"}

\* the handler reaches userSessions.set only past the expired return and the
\* if (!foundChatId) return
CreatesSession(outcome) == outcome = "Success"

\* the handler from the scan to its response, as a function of the stores,
\* the request, Date.now() and the session id generateSessionId returns
VerifyResult(store, sessions, username, otp, t, sessionId) ==
  LET outcome == VerifyOutcome(store, username, otp, t)
      m == ScanStore(store, 1, username, otp, t)
      ok == CreatesSession(outcome)
      userData == store[m.idx]
  IN [store |-> CASE outcome = "Expired" -> StoreAfterExpired(store, userData.chatId)
                  [] outcome = "Success" -> StoreAfterSuccess(store, userData.chatId)
                  [] OTHER -> store,
      sessions |-> IF ok
                   THEN SessionSet(sessions, sessionId,
                                   SessionRecord(userData.chatId, userData, t))
                   ELSE sessions,
      res |-> [op |-> "verify", status |-> VerifyStatus(outcome),
               outcome |-> outcome, error |-> VerifyError(outcome),
               sessionId |-> IF ok THEN sessionId ELSE "",
               username |-> IF ok THEN userData.username ELSE Undef,
               notify |-> IF ok THEN userData.chatId ELSE NoChat,
               otp |-> IF outcome \in {"Success", "Expired"} THEN otp ELSE Undef]]

\* d is what the two Math.random() calls of generateSessionId draw
VerifyWith(username, otp, d) ==
  LET r == VerifyResult(otpStorage, userSessions, username, otp, now,
                        generateSessionId(d[1], d[2]))
  IN /\ otpStorage' = r.store
     /\ userSessions' = r.sessions
     /\ returnedIds' = IF r.res.outcome = "Success"
                       THEN returnedIds \cup {r.res.sessionId} ELSE returnedIds
     /\ last' = IF r.store = otpStorage /\ r.sessions = userSessions
                THEN last ELSE r.res
     /\ UNCHANGED <<variant, now, inFlight, nStarts>>

VerifyOtp(username, otp) ==
  IF VerifyOutcome(otpStorage, username, otp, now) = "Success"
  THEN \E d \in Base36Draws : VerifyWith(username, otp, d)
  ELSE VerifyWith(username, otp, CHOOSE d \in Base36Draws : TRUE)

(* ------------------------ GET /api/session/:sessionId ------------------ *)
\* the response of the session handler
SessionLookup(sessions, sessionId) ==
  LET found == sessionId \in DOMAIN sessions
  IN [op |-> "session",
      status |-> IF found THEN 200 ELSE 404,
      username |-> IF found THEN sessions[sessionId].username ELSE Undef,
      verified |-> IF found THEN sessions[sessionId].verified ELSE FALSE,
      timestamp |-> IF found THEN sessions[sessionId].timestamp ELSE 0]

\* the handler reads userSessions and answers SessionLookup; it writes nothing
GetSession(sessionId) ==
  /\ SessionLookup(userSessions, sessionId).op = "session"
  /\ UNCHANGED vars

(* ------------------------- GET /api/debug/otps ------------------------- *)
\* the listing the diagnostic handler answers with
DebugOtps(store, t) ==
  [i \in 1..Len(store) |->
     [chatId |-> store[i].chatId, username |-> store[i].username,
      otp |-> store[i].otp, timestamp |-> store[i].timestamp,
      expired |-> isExpired(t, store[i].timestamp)]]

\* the handler reads otpStorage and answers DebugOtps; it writes nothing
GetDebugOtps ==
  /\ Len(DebugOtps(otpStorage, now)) = Len(otpStorage)
  /\ UNCHANGED vars

(* ------------------------------- sweeper ------------------------------- *)
RECURSIVE SweepFrom_SkipNext(_, _, _)
\* a scan by array index: after a deletion the entry that moved into the
\* freed position is skipped
SweepFrom_SkipNext(store, i, t) ==
  IF i > Len(store) THEN store
  ELSE IF t - store[i].timestamp > OtpExpiryMs
       THEN SweepFrom_SkipNext(OtpDelete(store, store[i].chatId), i + 1, t)
       ELSE SweepFrom_SkipNext(store, i + 1, t)

RECURSIVE SweepFrom(_, _, _)
\* the for-of loop of the setInterval callback: a Map iterator is live, so
\* after otpStorage.delete(chatId) it continues with the entry that followed
\* the deleted one
SweepFrom(store, i, t) ==
  IF i > Len(store) THEN store
  ELSE IF t - store[i].timestamp > OtpExpiryMs
       THEN SweepFrom(OtpDelete(store, store[i].chatId), i, t)
       ELSE SweepFrom(store, i + 1, t)

Sweep ==
  /\ variant \in {"server", "webhook"}
  /\ otpStorage' = SweepFrom(otpStorage, 1, now)
  /\ last' = IF SweepFrom(otpStorage, 1, now) = otpStorage THEN last
             ELSE [op |-> "sweep",
                   removed |-> Len(otpStorage) - Len(SweepFrom(otpStorage, 1, now))]
  /\ UNCHANGED <<variant, userSessions, now, inFlight, nStarts, returnedIds>>

(* -------------------------------- clock -------------------------------- *)
\* number of clock advances made so far
Ticks(t) == (t \div OtpExpiryMs) + (t % OtpExpiryMs)

\* Date.now() is observed at 0, then alternately one expiry window and one
\* millisecond later: 0, 600000, 600001, 1200001, ...
NextInstant(t) ==
  IF (t \div OtpExpiryMs) = (t % OtpExpiryMs) THEN t + OtpExpiryMs ELSE t + 1

Tick ==
  /\ Ticks(now) < MaxTicks
  /\ now' = NextInstant(now)
  /\ last' = [op |-> "tick"]
  /\ UNCHANGED <<variant, otpStorage, userSessions, inFlight, nStarts, returnedIds>>

(* ---------------------------- start handlers --------------------------- *)
\* chat ids Telegram delivers in msg.chat.id
TelegramChatIds == {1, 2}

\* msg.from.username and msg.from.first_name as Telegram delivers them
FromProfiles == {[username |-> Undef, first_name |-> Undef],
                 [username |-> Undef, first_name |-> Str(<<"A", "l">>)],
                 [username |-> Str(<<"A", "l">>), first_name |-> Str(<<"B", "o">>)]}

\* msg.from.username || msg.from.first_name || 'User'
DisplayNameServer(fromUsername, firstName) ==
  Or(Or(fromUsername, firstName), Str(<<"U", "s", "e", "r">>))

\* msg.from.username || msg.from.first_name || `user_${chatId}`
DisplayNameFallbackId(fromUsername, firstName, chatId) ==
  Or(Or(fromUsername, firstName),
     Str(<<"u", "s", "e", "r", "_">> \o NumberToString(chatId)))

\* one outbound sendMessage call
Attempt(chatId, otp, format) == [to |-> chatId, code |-> otp, format |-> format]

\* a handler suspended at an await on a delivery call
Suspended(kind, chatId, otp, pc, attempts) ==
  [kind |-> kind, chatId |-> chatId, otp |-> otp, pc |-> pc, attempts |-> attempts]

\* the code chatId's record held before the handler ran
PrevOtp(store, chatId) ==
  IF RecordsOf(store, chatId) = {} THEN Undef
  ELSE store[CHOOSE i \in RecordsOf(store, chatId) : TRUE].otp

\* the synchronous part of every issuing handler: generate, store, call send;
\* cap bounds the handlers suspended at once
Issue(kind, chatId, username, r, format, cap) ==
  LET otp == Str(generateOTP(r))
  IN /\ nStarts < MaxStarts
     /\ Len(inFlight) < cap
     /\ otpStorage' = OtpSet(otpStorage, chatId, otp, username, now)
     /\ inFlight' = Append(inFlight,
                           Suspended(kind, chatId, otp, "send1",
                                     <<Attempt(chatId, otp, format)>>))
     /\ nStarts' = nStarts + 1
     /\ last' = [op |-> "start", chatId |-> chatId,
                 prevOtp |-> PrevOtp(otpStorage, chatId)]
     /\ UNCHANGED <<variant, userSessions, now, returnedIds>>

\* src/server.js bot.onText(/\/start/)
StartServer(chatId, fromUsername, firstName, r) ==
  /\ variant = "server"
  /\ Issue("server", chatId, DisplayNameServer(fromUsername, firstName), r, "Markdown",
           MaxInFlight)

\* part_000 bot.onText(/\/start/)
StartWebhook(chatId, fromUsername, firstName, r) ==
  /\ variant = "webhook"
  /\ Issue("webhook", chatId, DisplayNameFallbackId(fromUsername, firstName, chatId),
           r, "Markdown", MaxInFlight)

\* the same handler entered while up to MaxOverlap earlier deliveries are
\* still pending
StartWebhookOverlapping(chatId, fromUsername, firstName, r) ==
  /\ variant = "webhook"
  /\ Issue("webhook", chatId, DisplayNameFallbackId(fromUsername, firstName, chatId),
           r, "Markdown", MaxOverlap)

\* part_001 POST /webhook/:token with message.text === '/start'
WebhookDirect(chatId, fromUsername, firstName, r) ==
  /\ variant = "direct"
  /\ Issue("update", chatId, DisplayNameFallbackId(fromUsername, firstName, chatId),
           r, "plain", MaxInFlight)

\* req.body of POST /generate-otp
GenerateBodies == {[chatId |-> Num(0), username |-> Str(<<"A", "l">>)],
                   [chatId |-> Str(<<"1">>), username |-> Undef]}

\* part_001 POST /generate-otp
GenerateOtp(chatId, username, r) ==
  /\ variant = "direct"
  /\ Issue("generate", ParseInt(chatId), username, r, "plain", MaxInFlight)

(* ------------------------- delivery completion ------------------------- *)
\* names bound where the try block of the part_000 handler sends the message
TryScope == {"msg", "chatId", "username", "startTime", "otp", "timestamp", "message"}

\* names bound inside its catch (error) block: const declarations made inside
\* the try block are not visible there
CatchScope == {"msg", "chatId", "username", "startTime", "error"}

\* names the fallback call's arguments read
FallbackReads == {"chatId", "otp"}

\* evaluating the fallback's template literal throws a ReferenceError when a
\* name it reads is unbound; the inner catch logs it and nothing is sent
FallbackThrows(scope) == ~(FallbackReads \subseteq scope)

\* what a suspended handler does when its delivery call settles:
\* <<next suspension or none, attempts made so far>>
Resume(h, ok) ==
  IF h.kind = "webhook" /\ h.pc = "send1" /\ ~ok /\ ~FallbackThrows(CatchScope)
  THEN [done |-> FALSE,
        h |-> Suspended(h.kind, h.chatId, h.otp, "send2",
                        Append(h.attempts, Attempt(h.chatId, h.otp, "plain")))]
  ELSE [done |-> TRUE, h |-> h]

\* HTTP status the suspended handler answers with (0: it answers nothing)
HandlerStatus(h, ok) ==
  CASE h.kind = "generate" -> IF ok THEN 200 ELSE 500
    [] h.kind = "update" -> 200
    [] OTHER -> 0

\* a handler that stored its code again after its delivery call settled
Settle_StoreAfterSend(i, ok) ==
  LET h == inFlight[i]
      r == Resume(h, ok)
  IN /\ inFlight' = IF r.done THEN RemoveAt(inFlight, i)
                    ELSE [inFlight EXCEPT ![i] = r.h]
     /\ otpStorage' = OtpSet(otpStorage, h.chatId, h.otp, Undef, now)
     /\ last' = [op |-> "startDone", kind |-> h.kind, chatId |-> h.chatId,
                 otp |-> h.otp, attempts |-> r.h.attempts,
                 firstFailed |-> (h.pc = "send2" \/ ~ok),
                 lastFailed |-> ~ok,
                 status |-> HandlerStatus(h, ok)]
     /\ UNCHANGED <<variant, userSessions, now, nStarts, returnedIds>>

Settle(i, ok) ==
  LET h == inFlight[i]
      r == Resume(h, ok)
  IN /\ inFlight' = IF r.done THEN RemoveAt(inFlight, i)
                    ELSE [inFlight EXCEPT ![i] = r.h]
     /\ last' = IF r.done
                THEN [op |-> "startDone", kind |-> h.kind, chatId |-> h.chatId,
                      otp |-> h.otp, attempts |-> r.h.attempts,
                      firstFailed |-> (h.pc = "send2" \/ ~ok),
                      lastFailed |-> ~ok,
                      status |-> HandlerStatus(h, ok)]
                ELSE [op |-> "fallback", chatId |-> h.chatId, otp |-> h.otp]
     /\ UNCHANGED <<variant, otpStorage, userSessions, now, nStarts, returnedIds>>

(* ------------------------- success notification ------------------------ *)
\* A successful verify sends the notification and does not wait for it. No
\* variable of the program refers to the promise, and a notification sent
\* since the process started can be pending for any length of time, so one
\* may be pending whenever this process has created a session.
NotificationMayBePending == userSessions # <<>>

\* the notification's promise settles: a fulfilled promise, a rejection that
\* part_001 logs through .catch(console.error), and a rejection the runtime
\* only warns about all leave the process as it is
NotifySettle(ok) ==
  /\ NotificationMayBePending
  /\ ok \in BOOLEAN
  /\ UNCHANGED vars

\* a promise whose rejection no handler would catch can be pending: the
\* notification of server.js and part_000, sent without .catch, and the async
\* /start callback of server.js, which awaits the delivery outside any try
UncaughtRejectionPossible ==
  \/ variant \in {"server", "webhook"} /\ NotificationMayBePending
  \/ \E i \in 1..Len(inFlight) : inFlight[i].kind = "server"

\* the process ends and is started again with new, empty Maps and no
\* suspended handler
Restart ==
  /\ otpStorage' = <<>>
  /\ userSessions' = <<>>
  /\ inFlight' = <<>>
  /\ returnedIds' = {}
  /\ last' = [op |-> "exit"]
  /\ UNCHANGED <<variant, now, nStarts>>

\* an unhandled rejection on a runtime that treats it as fatal (Node.js 15
\* and later by default) ends the process
ProcessExit == UncaughtRejectionPossible /\ Restart

(* ----------------------------- specification --------------------------- *)
Variants == {"server", "webhook", "direct"}

\* requests a client can post to /api/verify-otp
VerifyUsernames == {Undef, Str(<<"a", "l">>), Num(7)}

VerifyOtps == {Str(<<>>)} \cup {Str(generateOTP(r)) : r \in MathRandom}

\* the bodies posted: a missing username, an empty otp, a username that is
\* not a string, and the username "al" with each code
VerifyBodies ==
  {b \in [username : VerifyUsernames, otp : VerifyOtps] :
     \/ IsString(b.username) /\ Truthy(b.username)
     \/ b.otp = Str(generateOTP(<<0, 1000>>))}

Init ==
  /\ variant \in Variants
  /\ otpStorage = <<>>
  /\ userSessions = <<>>
  /\ now = 0
  /\ inFlight = <<>>
  /\ nStarts = 0
  /\ returnedIds = {}
  /\ last = [op |-> "init"]

Next ==
  \/ \E c \in TelegramChatIds, p \in FromProfiles, r \in MathRandom :
       StartServer(c, p.username, p.first_name, r)
  \/ \E c \in TelegramChatIds, p \in FromProfiles, r \in MathRandom :
       StartWebhook(c, p.username, p.first_name, r)
  \/ \E c \in TelegramChatIds, p \in FromProfiles, r \in MathRandom :
       WebhookDirect(c, p.username, p.first_name, r)
  \/ \E b \in GenerateBodies, r \in MathRandom : GenerateOtp(b.chatId, b.username, r)
  \/ \E i \in 1..Len(inFlight), ok \in BOOLEAN : Settle(i, ok)
  \/ \E b \in VerifyBodies : VerifyOtp(b.username, b.otp)
  \/ \E sid \in SessionIds : GetSession(sid)
  \/ GetDebugOtps
  \/ \E ok \in BOOLEAN : NotifySettle(ok)
  \/ ProcessExit
  \/ Sweep
  \/ Tick

Spec == Init /\ [][Next]_vars

\* the polling bot, src/server.js
InitServer == Init /\ variant = "server"

NextServer ==
  \/ \E c \in TelegramChatIds, p \in FromProfiles, r \in MathRandom :
       StartServer(c, p.username, p.first_name, r)
  \/ \E i \in 1..Len(inFlight), ok \in BOOLEAN : Settle(i, ok)
  \/ \E b \in VerifyBodies : VerifyOtp(b.username, b.otp)
  \/ \E sid \in SessionIds : GetSession(sid)
  \/ GetDebugOtps
  \/ \E ok \in BOOLEAN : NotifySettle(ok)
  \/ ProcessExit
  \/ Sweep
  \/ Tick

SpecServer == InitServer /\ [][NextServer]_vars

\* the webhook bot, part_000
InitWebhook == Init /\ variant = "webhook"

NextWebhook ==
  \/ \E c \in TelegramChatIds, p \in FromProfiles, r \in MathRandom :
       StartWebhook(c, p.username, p.first_name, r)
  \/ \E i \in 1..Len(inFlight), ok \in BOOLEAN : Settle(i, ok)
  \/ \E b \in VerifyBodies : VerifyOtp(b.username, b.otp)
  \/ \E sid \in SessionIds : GetSession(sid)
  \/ GetDebugOtps
  \/ \E ok \in BOOLEAN : NotifySettle(ok)
  \/ ProcessExit
  \/ Sweep
  \/ Tick

SpecWebhook == InitWebhook /\ [][NextWebhook]_vars

\* the direct-API variant, part_001
InitDirect == Init /\ variant = "direct"

NextDirect ==
  \/ \E c \in TelegramChatIds, p \in FromProfiles, r \in MathRandom :
       WebhookDirect(c, p.username, p.first_name, r)
  \/ \E b \in GenerateBodies, r \in MathRandom : GenerateOtp(b.chatId, b.username, r)
  \/ \E i \in 1..Len(inFlight), ok \in BOOLEAN : Settle(i, ok)
  \/ \E b \in VerifyBodies : VerifyOtp(b.username, b.otp)
  \/ \E sid \in SessionIds : GetSession(sid)
  \/ GetDebugOtps
  \/ \E ok \in BOOLEAN : NotifySettle(ok)
  \/ Tick

SpecDirect == InitDirect /\ [][NextDirect]_vars

\* the webhook bot receiving /start while earlier deliveries are pending
InitOverlap == Init /\ variant = "webhook"

NextOverlap ==
  \/ \E c \in TelegramChatIds, p \in FromProfiles, r \in MathRandom :
       StartWebhookOverlapping(c, p.username, p.first_name, r)
  \/ \E i \in 1..Len(inFlight), ok \in BOOLEAN : Settle(i, ok)
  \/ \E b \in VerifyBodies : VerifyOtp(b.username, b.otp)
  \/ \E sid \in SessionIds : GetSession(sid)
  \/ GetDebugOtps
  \/ \E ok \in BOOLEAN : NotifySettle(ok)
  \/ ProcessExit
  \/ Sweep
  \/ Tick

SpecOverlap == InitOverlap /\ [][NextOverlap]_vars

\* Time passes, and where setInterval registers the sweeper the event loop
\* runs it again and again; nothing obliges a client to post a request.
SpecServerFair == SpecServer /\ WF_vars(Tick) /\ WF_vars(Sweep)

SpecWebhookFair == SpecWebhook /\ WF_vars(Tick) /\ WF_vars(Sweep)

\* part_001 registers no timer: only the clock is sure to advance
SpecDirectFair == SpecDirect /\ WF_vars(Tick)

(* ------------------------------ properties ----------------------------- *)
\* rec's displayName equals username up to letter case and rec's code is otp
PairMatches(rec, username, otp) ==
  /\ IsString(rec.username) /\ IsString(username)
  /\ ToLowerCase(rec.username.s) = ToLowerCase(username.s)
  /\ rec.otp = otp

MatchingIndexes(store, username, otp) ==
  {i \in 1..Len(store) : PairMatches(store[i], username, otp)}

MatchCount(store, username, otp) == Cardinality(MatchingIndexes(store, username, otp))

FirstMatch(store, username, otp) ==
  CHOOSE i \in MatchingIndexes(store, username, otp) :
    \A j \in MatchingIndexes(store, username, otp) : i <= j

\* every displayName in the store is a string
AllNamesAreStrings(store) == \A i \in 1..Len(store) : IsString(store[i].username)

\* what a verify of body b does in the current state
VerifyNow(b) ==
  VerifyResult(otpStorage, userSessions, b.username, b.otp, now,
               CHOOSE sid \in SessionIds : TRUE)

\* what a verify of body b does in the state r.store, r.sessions at the same instant
VerifyNext(r, b) ==
  VerifyResult(r.store, r.sessions, b.username, b.otp, now,
               CHOOSE sid \in SessionIds : TRUE)

\* what a verify of (username, otp) would answer in the state after this step
ReplayAfter(username, otp) ==
  VerifyResult(otpStorage', userSessions', username, otp, now',
               CHOOSE sid \in SessionIds : TRUE)

Records(store) == {store[i] : i \in 1..Len(store)}

\* C1 as stated: after a verify(username, code) succeeds, an immediately
\* following verify with the same pair fails with InvalidCredentials and
\* creates no session, in every reachable state of the OTP store.
C1_ReplayAlwaysInvalid ==
  [][last'.op = "verify" =>
     \A b \in VerifyBodies :
       (/\ VerifyOutcome(otpStorage, b.username, b.otp, now) = "Success"
        /\ VerifyOtp(b.username, b.otp))
       => /\ ReplayAfter(b.username, b.otp).res.outcome = "InvalidCredentials"
          /\ ReplayAfter(b.username, b.otp).sessions = userSessions']_vars

\* C1 amended: a successful verify removes the record it matched, and when no
\* other record matched the pair an immediately following verify with the
\* same pair fails with InvalidCredentials ('Invalid username or OTP') and
\* creates no session.
C1_SingleUse ==
  [][last'.op = "verify" =>
     \A b \in VerifyBodies :
       (/\ VerifyOutcome(otpStorage, b.username, b.otp, now) = "Success"
        /\ VerifyOtp(b.username, b.otp))
       => /\ RecordsOf(otpStorage', last'.notify) = {}
          /\ MatchCount(otpStorage, b.username, b.otp) = 1
             => /\ ReplayAfter(b.username, b.otp).res.outcome = "InvalidCredentials"
                /\ ReplayAfter(b.username, b.otp).res.error = "Invalid username or OTP"
                /\ ReplayAfter(b.username, b.otp).res.status = 400
                /\ ReplayAfter(b.username, b.otp).sessions = userSessions'
                /\ ReplayAfter(b.username, b.otp).store = otpStorage']_vars

\* a verify has just succeeded on the only record its pair matched, and other
\* records are still stored
C1_Witness ==
  /\ last.op = "verify" /\ last.outcome = "Success"
  /\ otpStorage # <<>>
  /\ \A b \in VerifyBodies : MatchCount(otpStorage, b.username, b.otp) = 0

\* C2 as stated: when R's record is the only record matching (username, code),
\* verify fails with Expired if now - issuedAt > 10 minutes and succeeds,
\* creating a session, if now - issuedAt <= 10 minutes, for every integer R;
\* no session is created from a record older than 10 minutes.
C2_ExpiryDecides ==
  \A b \in VerifyBodies :
    (AllNamesAreStrings(otpStorage) /\ MatchCount(otpStorage, b.username, b.otp) = 1)
    => LET rec == otpStorage[FirstMatch(otpStorage, b.username, b.otp)]
           r == VerifyNow(b)
       IN IF now - rec.timestamp > 10 * 60 * 1000
          THEN r.res.outcome = "Expired" /\ r.sessions = userSessions
          ELSE /\ r.res.outcome = "Success"
               /\ r.res.sessionId \in DOMAIN r.sessions
               /\ r.sessions[r.res.sessionId].chatId = rec.chatId

\* C3 as stated: after a start event for R the store holds exactly one record
\* for R, carrying the newly generated code, and a verify with R's display
\* name and R's previous code no longer succeeds.
C3_OldCodeNeverSucceeds ==
  [][last'.op = "start"
     => LET R == last'.chatId
            h == inFlight'[Len(inFlight')]
        IN /\ Cardinality(RecordsOf(otpStorage', R)) = 1
           /\ \A i \in RecordsOf(otpStorage', R) :
                /\ otpStorage'[i].otp = h.otp
                /\ last'.prevOtp # Undef
                   => ReplayAfter(otpStorage'[i].username, last'.prevOtp).res.outcome
                        # "Success"]_vars

\* C3 amended: after a start event for R the store holds exactly one record
\* for R, carrying the newly generated code and the time of the event; R's
\* prior record is overwritten, so a verify with R's display name and R's
\* previous code creates no session for R unless the new code equals the
\* previous one.
C3_Superseded ==
  [][last'.op = "start"
     => LET R == last'.chatId
            h == inFlight'[Len(inFlight')]
        IN /\ h.chatId = R
           /\ Cardinality(RecordsOf(otpStorage', R)) = 1
           /\ \A i \in RecordsOf(otpStorage', R) :
                /\ otpStorage'[i].otp = h.otp
                /\ otpStorage'[i].timestamp = now
                /\ (last'.prevOtp # Undef /\ last'.prevOtp # h.otp)
                   => LET r == ReplayAfter(otpStorage'[i].username, last'.prevOtp)
                      IN /\ r.res.notify # R
                         /\ \A sid \in DOMAIN r.sessions :
                              r.sessions[sid].chatId = R
                              => /\ sid \in DOMAIN userSessions'
                                 /\ userSessions'[sid] = r.sessions[sid]]_vars

\* a start event has just replaced R's unconsumed record by one with another code
C3_Witness ==
  /\ last.op = "start"
  /\ last.prevOtp # Undef
  /\ \A i \in RecordsOf(otpStorage, last.chatId) : otpStorage[i].otp # last.prevOtp

\* C4: a successful verify, in one step, inserts the session record {recipient
\* and displayName of the matched record, verified = true} under the returned
\* sessionId and deletes the matched OTP record; a lookup of the returned
\* sessionId then finds that record with verified = true, and a lookup of an
\* identifier no successful verify returned answers not found.
C4_SuccessIsAtomic ==
  [][/\ last'.op = "verify" =>
        \A b \in VerifyBodies :
          (/\ VerifyOutcome(otpStorage, b.username, b.otp, now) = "Success"
           /\ VerifyOtp(b.username, b.otp))
          => LET i == FirstMatch(otpStorage, b.username, b.otp)
                 rec == otpStorage[i]
                 sid == last'.sessionId
             IN /\ sid \in DOMAIN userSessions'
                /\ userSessions'[sid].chatId = rec.chatId
                /\ userSessions'[sid].username = rec.username
                /\ userSessions'[sid].verified = TRUE
                /\ userSessions'[sid].timestamp = now
                /\ otpStorage' = RemoveAt(otpStorage, i)
                /\ now' = now /\ inFlight' = inFlight
                /\ sid \in returnedIds'
                /\ SessionLookup(userSessions', sid).status = 200
                /\ SessionLookup(userSessions', sid).verified = TRUE
                /\ SessionLookup(userSessions', sid).username = rec.username
     /\ \A sid \in SessionIds :
          IF sid \in returnedIds'
          THEN /\ SessionLookup(userSessions', sid).status = 200
               /\ SessionLookup(userSessions', sid).verified = TRUE
          ELSE SessionLookup(userSessions', sid).status = 404]_vars

\* a verify has just succeeded, a lookup of the id it returned finds the
\* verified session, and an id no verify returned is looked up as not found
C4_Witness ==
  /\ last.op = "verify" /\ last.outcome = "Success"
  /\ SessionLookup(userSessions, last.sessionId).status = 200
  /\ SessionLookup(userSessions, last.sessionId).verified = TRUE
  /\ \E sid \in SessionIds \ returnedIds : SessionLookup(userSessions, sid).status = 404

\* C5: when verify finds a matching record that is expired it deletes that
\* record and fails with Expired, changing nothing else; a second verify with
\* the same pair then fails with InvalidCredentials, not Expired. Stated for
\* the case where the expired record is the only record the pair matches.
C5_ExpiredThenInvalid ==
  \A b \in VerifyBodies :
    (VerifyNow(b).res.outcome = "Expired" /\ MatchCount(otpStorage, b.username, b.otp) = 1)
    => /\ VerifyNow(b).store =
            RemoveAt(otpStorage, FirstMatch(otpStorage, b.username, b.otp))
       /\ VerifyNow(b).sessions = userSessions
       /\ VerifyNext(VerifyNow(b), b).res.outcome = "InvalidCredentials"

\* C6: a session record, once created under a session identifier, never
\* changes and is never removed while the process lives.
C6_SessionsImmutable ==
  [][last'.op # "exit"
     => \A sid \in DOMAIN userSessions :
          sid \in DOMAIN userSessions' /\ userSessions'[sid] = userSessions[sid]]_vars

\* C7 as stated: for every stored non-expired record with displayName d and
\* code c and every username u equal to d up to letter case, verify(u, c)
\* succeeds and the username returned and stored in the session is d.
C7_EveryRecordVerifies ==
  \A b \in VerifyBodies :
    \A i \in MatchingIndexes(otpStorage, b.username, b.otp) :
      ~(now - otpStorage[i].timestamp > 10 * 60 * 1000)
      => LET r == VerifyNow(b)
         IN /\ r.res.outcome = "Success"
            /\ r.res.username = otpStorage[i].username
            /\ r.sessions[r.res.sessionId].username = otpStorage[i].username

\* C7 amended: username matching is case-insensitive and code matching is
\* exact; when the first record in iteration order whose displayName equals u
\* up to letter case and whose code equals c is not expired, verify(u, c)
\* succeeds and the username returned and stored in the session is that
\* record's displayName, not the submitted u; a pair no record matches in
\* this sense never succeeds.
C7_CaseInsensitiveFirstMatch ==
  \A b \in VerifyBodies :
    LET r == VerifyNow(b)
    IN IF MatchingIndexes(otpStorage, b.username, b.otp) = {}
       THEN r.res.outcome \notin {"Success", "Expired"}
       ELSE LET rec == otpStorage[FirstMatch(otpStorage, b.username, b.otp)]
            IN ~(now - rec.timestamp > 10 * 60 * 1000)
               => /\ r.res.outcome = "Success"
                  /\ r.res.username = rec.username
                  /\ r.sessions[r.res.sessionId].username = rec.username
                  /\ r.sessions[r.res.sessionId].chatId = rec.chatId

\* a verify has just succeeded and answered with a displayName that differs
\* in letter case from every username a client can submit
C7_Witness ==
  /\ last.op = "verify" /\ last.outcome = "Success"
  /\ IsString(last.username)
  /\ \A u \in VerifyUsernames :
       IsString(u) /\ Truthy(u)
       => /\ u.s # last.username.s
          /\ ToLowerCase(u.s) = ToLowerCase(last.username.s)

\* C8: immediately after a sweeper tick no record with now - issuedAt > 10
\* minutes is left in the OTP store, and every record with now - issuedAt <=
\* 10 minutes that was there before the tick is still there, unchanged and in
\* the same order; the tick changes nothing but the OTP store, and a tick
\* leaves the store as it is only when no record in it is older than 10
\* minutes.
C8_SweepPostcondition ==
  [][/\ (last'.op = "sweep" /\ Sweep)
        => /\ \A rec \in Records(otpStorage') : ~(now - rec.timestamp > 10 * 60 * 1000)
           /\ \A rec \in Records(otpStorage) :
                ~(now - rec.timestamp > 10 * 60 * 1000) => rec \in Records(otpStorage')
           /\ Records(otpStorage') \subseteq Records(otpStorage)
           /\ \A i, j \in 1..Len(otpStorage') :
                i < j => IndexOfKey(otpStorage, otpStorage'[i].chatId)
                           < IndexOfKey(otpStorage, otpStorage'[j].chatId)
           /\ last'.removed = Len(otpStorage) - Len(otpStorage')
           /\ now' = now /\ userSessions' = userSessions /\ inFlight' = inFlight
     /\ SweepFrom(otpStorage', 1, now') = otpStorage'
        => \A rec \in Records(otpStorage') :
             ~(now' - rec.timestamp > 10 * 60 * 1000)]_vars

\* a sweeper tick has just removed two records at once
C8_Witness == last.op = "sweep" /\ last.removed >= 2

\* C9: every verify call ends in one of the four typed outcomes, answered as
\* HTTP 200 or 400; no store content and no request body makes the lookup
\* raise an exception.
C9_TypedOutcomes ==
  \A b \in VerifyBodies :
    /\ VerifyNow(b).res.outcome
         \in {"InvalidRequest", "InvalidCredentials", "Expired", "Success"}
    /\ VerifyNow(b).res.status \in {200, 400}

\* C10: when the first delivery for a start event fails, exactly one fallback
\* delivery attempt is made to the same recipient with the same code as plain
\* text, and no more than two attempts are made in all.
C10_OneFallback ==
  (last.op = "startDone" /\ last.kind = "webhook" /\ last.firstFailed)
  => /\ Len(last.attempts) = 2
     /\ last.attempts[2] = Attempt(last.chatId, last.otp, "plain")

\* C11: a failed delivery (and a failed fallback delivery) never rolls back
\* issuance: the step in which the handler learns of the failure leaves the
\* OTP store as it is, and while R's record with the generated code is in the
\* store and not older than 10 minutes a verify with R's display name and
\* that code succeeds. Stated for the case where R's record is the only
\* record the pair matches and every stored display name is a string.
C11_FailureKeepsRecord ==
  [][(last'.op = "startDone" /\ last'.lastFailed)
     => /\ otpStorage' = otpStorage
        /\ \A i \in RecordsOf(otpStorage', last'.chatId) :
             (/\ otpStorage'[i].otp = last'.otp
              /\ AllNamesAreStrings(otpStorage')
              /\ MatchCount(otpStorage', otpStorage'[i].username, last'.otp) = 1
              /\ ~(now' - otpStorage'[i].timestamp > 10 * 60 * 1000))
             => ReplayAfter(otpStorage'[i].username, last'.otp).res.outcome
                  = "Success"]_vars

\* request bodies in which username or otp is missing or empty
MissingFieldBodies ==
  {b \in [username : {Undef, Str(<<>>), Str(<<"a", "l">>)},
          otp : {Undef, Str(<<>>), Str(generateOTP(<<0, 1000>>))}] :
     ~Truthy(b.username) \/ ~Truthy(b.otp)}

\* C12: a verify call with username or code missing or empty fails with
\* InvalidRequest (HTTP 400, 'Username and OTP are required') before any
\* lookup and leaves the OTP store and the session store unchanged, even when
\* the field that is present identifies a stored record.
C12_MissingFieldRejected ==
  \A b \in MissingFieldBodies :
    /\ VerifyNow(b).res.outcome = "InvalidRequest"
    /\ VerifyNow(b).res.status = 400
    /\ VerifyNow(b).res.error = "Username and OTP are required"
    /\ VerifyNow(b).store = otpStorage
    /\ VerifyNow(b).sessions = userSessions

\* a record is stored that the username "al" and the code 100000 each
\* identify, it is not expired, and a request carrying only one of them is
\* rejected
C12_Witness ==
  /\ \E i \in 1..Len(otpStorage) :
       /\ PairMatches(otpStorage[i], Str(<<"a", "l">>), Str(generateOTP(<<0, 1000>>)))
       /\ ~isExpired(now, otpStorage[i].timestamp)
  /\ VerifyNow([username |-> Undef, otp |-> Str(generateOTP(<<0, 1000>>))]).res.outcome
       = "InvalidRequest"
  /\ VerifyNow([username |-> Str(<<"a", "l">>), otp |-> Str(<<>>)]).res.outcome
       = "InvalidRequest"

\* rec's displayName equals username up to letter case
NameMatches(rec, username) ==
  /\ IsString(rec.username) /\ IsString(username)
  /\ ToLowerCase(rec.username.s) = ToLowerCase(username.s)

\* bodies with both fields present whose pair no stored record matches: the
\* username matches no record, or it matches records none of which has the code
WrongPairBodies ==
  {b \in VerifyBodies :
     /\ Truthy(b.username) /\ Truthy(b.otp)
     /\ \A i \in 1..Len(otpStorage) :
          NameMatches(otpStorage[i], b.username) => otpStorage[i].otp # b.otp}

\* C13: in every store state, a verify whose username matches no record and a
\* verify whose username matches a record but whose code does not both get
\* the same InvalidCredentials response (HTTP 400, 'Invalid username or OTP')
\* and both leave the OTP store and the session store unchanged.
C13_Indistinguishable ==
  \A b \in WrongPairBodies :
    /\ VerifyNow(b).res.outcome = "InvalidCredentials"
    /\ VerifyNow(b).res.status = 400
    /\ VerifyNow(b).res.error = "Invalid username or OTP"
    /\ VerifyNow(b).store = otpStorage
    /\ VerifyNow(b).sessions = userSessions

\* C14: failure of the success notification never affects the session: once
\* a verify has succeeded, a lookup of the sessionId it returned finds the
\* session after every later step, whether the notification succeeds, fails
\* or never completes. Stated for the steps taken while no start handler is
\* suspended, so that the notification is the only pending call.
C14_NotificationNeverAffectsSession ==
  [][inFlight = <<>>
     => \A sid \in returnedIds :
          /\ SessionLookup(userSessions', sid).status = 200
          /\ SessionLookup(userSessions', sid).verified = TRUE]_vars

C16_OnlySuccessWritesSessions ==
  [][last'.op # "exit"
     => /\ userSessions' # userSessions
           => /\ last'.op = "verify" /\ last'.outcome = "Success"
              /\ \E b \in VerifyBodies :
                   /\ VerifyOutcome(otpStorage, b.username, b.otp, now) = "Success"
                   /\ VerifyOtp(b.username, b.otp)
        /\ last'.op \in {"start", "startDone", "fallback", "sweep", "tick"}
           => userSessions' = userSessions
        /\ (last'.op = "verify" /\ last'.outcome # "Success")
           => userSessions' = userSessions]_vars

\* a sweeper tick has just removed a record while a session is stored
C16_Witness == last.op = "sweep" /\ userSessions # <<>>

\* C17 as stated: whenever two start handlers for the same recipient R are
\* suspended, the store holds exactly one record for R and it carries the
\* code of the later of them.
C17_OverlapHoldsOneRecord ==
  \A i, j \in 1..Len(inFlight) :
    (/\ i < j
     /\ inFlight[i].chatId = inFlight[j].chatId
     /\ \A k \in 1..Len(inFlight) : k > j => inFlight[k].chatId # inFlight[j].chatId)
    => /\ Cardinality(RecordsOf(otpStorage, inFlight[j].chatId)) = 1
       /\ \A k \in RecordsOf(otpStorage, inFlight[j].chatId) :
            otpStorage[k].otp = inFlight[j].otp

\* C17: a handler writes the OTP store only before its delivery call
\* suspends: a start step leaves exactly one record for its recipient R,
\* carrying the new code and the current time, also while earlier handlers
\* for R are suspended; a delivery completion or fallback step changes
\* neither store whichever suspended handler it resumes; no other step adds
\* or changes a record; and the store never holds two records for one
\* recipient. So R's record, until a verify or a sweeper tick removes it or
\* the process exits, is that of the start processed last.
C17_LastStartWins ==
  [][/\ last'.op \in {"startDone", "fallback"}
        => otpStorage' = otpStorage /\ userSessions' = userSessions
     /\ last'.op = "start"
        => LET h == inFlight'[Len(inFlight')]
           IN /\ h.chatId = last'.chatId
              /\ \A i \in 1..Len(inFlight) : inFlight'[i] = inFlight[i]
              /\ Cardinality(RecordsOf(otpStorage', h.chatId)) = 1
              /\ \A k \in RecordsOf(otpStorage', h.chatId) :
                   /\ otpStorage'[k].otp = h.otp
                   /\ otpStorage'[k].timestamp = now
     /\ \A k \in 1..Len(otpStorage') :
          otpStorage'[k] \notin Records(otpStorage)
          => last'.op = "start" /\ otpStorage'[k].chatId = last'.chatId
     /\ \A k, m \in 1..Len(otpStorage') :
          otpStorage'[k].chatId = otpStorage'[m].chatId => k = m]_vars

\* the delivery of the later of two overlapping starts for one recipient has
\* just completed while the earlier one, which drew another code, is still
\* suspended, and the recipient's record carries the later code
C17_Witness ==
  /\ last.op = "startDone"
  /\ \E i \in 1..Len(inFlight) :
       /\ inFlight[i].chatId = last.chatId
       /\ inFlight[i].otp # last.otp
  /\ RecordsOf(otpStorage, last.chatId) # {}
  /\ \A k \in RecordsOf(otpStorage, last.chatId) : otpStorage[k].otp = last.otp

\* the store holds a record older than the expiry window
HoldsExpiredRecord ==
  \E k \in 1..Len(otpStorage) : isExpired(now, otpStorage[k].timestamp)

\* C18: the store never retains an expired record forever: whenever it holds
\* a record older than 10 minutes, a later state holds none (the record was
\* swept, verified or superseded).
C18_ExpiredRecordEventuallyRemoved == HoldsExpiredRecord ~> ~HoldsExpiredRecord

\* C19 as stated: verify answers Expired for (username, code) only when no
\* stored record that matches (username, code) is not expired.
C19_ExpiredOnlyWithoutLiveMatch ==
  \A b \in VerifyBodies :
    VerifyNow(b).res.outcome = "Expired"
    => \A i \in MatchingIndexes(otpStorage, b.username, b.otp) :
         isExpired(now, otpStorage[i].timestamp)

\* C19 amended: verify answers Expired for (username, code) exactly when the
\* first record in iteration order that matches (username, code) is expired;
\* the call deletes that record only and creates no session, so a matching
\* record further on that is not expired is not verified by this call: it is
\* the next call with the same pair that succeeds on it.
C19_ExpiredIffFirstMatchExpired ==
  \A b \in VerifyBodies :
    LET r == VerifyNow(b)
        M == MatchingIndexes(otpStorage, b.username, b.otp)
    IN /\ (r.res.outcome = "Expired")
          <=> (M # {} /\ isExpired(now, otpStorage[FirstMatch(otpStorage, b.username,
                                                              b.otp)].timestamp))
       /\ r.res.outcome = "Expired"
          => LET f == FirstMatch(otpStorage, b.username, b.otp)
                 next == VerifyNext(r, b)
             IN /\ r.store = RemoveAt(otpStorage, f)
                /\ r.sessions = userSessions
                /\ \A g \in M \ {f} :
                     (/\ \A j \in M \ {f} : g <= j
                      /\ ~isExpired(now, otpStorage[g].timestamp))
                     => /\ next.res.outcome = "Success"
                        /\ next.res.notify = otpStorage[g].chatId
                        /\ next.store = RemoveAt(r.store, g - 1)

\* a verify has just answered Expired and deleted a record while another
\* record matching the pair it was given is stored and not expired
C19_Witness ==
  /\ last.op = "verify" /\ last.outcome = "Expired"
  /\ \E b \in VerifyBodies :
       /\ b.otp = last.otp
       /\ \E i \in MatchingIndexes(otpStorage, b.username, b.otp) :
            ~isExpired(now, otpStorage[i].timestamp)

\* C20: records enter the OTP store only by an issuance (a start event or a
\* generate call), one record per issuance; every step that creates a session
\* is a verify that found, first in iteration order, a record that was in the
\* store, matched the submitted username and code and was at most 10 minutes
\* old; the session carries that record's chatId and displayName, and the
\* step removes exactly that record. So an issuance yields at most one
\* session.
C20_OneSessionPerIssuance ==
  [][/\ \A k \in 1..Len(otpStorage') :
          otpStorage'[k] \notin Records(otpStorage)
          => /\ last'.op = "start" /\ otpStorage'[k].chatId = last'.chatId
             /\ Len(otpStorage') <= Len(otpStorage) + 1
     /\ (\E sid \in DOMAIN userSessions' :
           sid \in DOMAIN userSessions => userSessions'[sid] # userSessions[sid])
        => /\ last'.op = "verify" /\ last'.outcome = "Success"
           /\ \E b \in VerifyBodies :
                /\ VerifyOutcome(otpStorage, b.username, b.otp, now) = "Success"
                /\ VerifyOtp(b.username, b.otp)
     /\ last'.op = "verify"
        => \A b \in VerifyBodies :
             (/\ VerifyOutcome(otpStorage, b.username, b.otp, now) = "Success"
              /\ VerifyOtp(b.username, b.otp))
             => /\ MatchingIndexes(otpStorage, b.username, b.otp) # {}
                /\ LET f == FirstMatch(otpStorage, b.username, b.otp)
                       rec == otpStorage[f]
                   IN /\ ~(now - rec.timestamp > 10 * 60 * 1000)
                      /\ last'.outcome = "Success"
                      /\ last'.sessionId \in DOMAIN userSessions'
                      /\ userSessions'[last'.sessionId].chatId = rec.chatId
                      /\ userSessions'[last'.sessionId].username = rec.username
                      /\ userSessions'[last'.sessionId].timestamp = now
                      /\ \A sid \in DOMAIN userSessions' \ {last'.sessionId} :
                           /\ sid \in DOMAIN userSessions
                           /\ userSessions'[sid] = userSessions[sid]
                      /\ otpStorage' = RemoveAt(otpStorage, f)
                      /\ rec \notin Records(otpStorage')]_vars

\* two codes were issued, each was verified once, and the session store holds
\* two sessions, one for each recipient, while the OTP store is empty
C20_Witness ==
  /\ nStarts = 2
  /\ otpStorage = <<>>
  /\ Cardinality(DOMAIN userSessions) = 2
  /\ \E s1, s2 \in DOMAIN userSessions : userSessions[s1].chatId # userSessions[s2].chatId

====
